---- MODULE Spec2Model ----
(***************************************************************************)
(* Model of the Lab 7 static-analysis pipeline (cfg_cc.py and              *)
(* reaching_defs.py): comment stripping, leader detection, basic blocks,   *)
(* edge synthesis, cyclomatic complexity and the iterative reaching-       *)
(* definitions solver.                                                     *)
(*                                                                         *)
(* Text is modelled as a sequence of one-character strings, so that the    *)
(* regular expressions and substring tests of the source are computed      *)
(* character by character.  Block labels and definition ids are the        *)
(* strings the source formats ("B0", "D1").                                *)
(***************************************************************************)
EXTENDS Integers, Sequences, FiniteSets, TLC

\* ------------------------------------------------------------- bounds

\* Longest program, in raw source lines, drawn from Vocabulary.
MaxLines == 3

\* Number of distinct per-process string-hash seeds considered; the seed
\* fixes the iteration order of set(edges) in create_edges.
NumSeeds == 2

\* Cap on the sweeps of the solver's while loop (a guard of StartSweep).
MaxIter == 8

\* ------------------------------------------------------- character classes

Lower == {"a","b","c","d","e","f","g","h","i","j","k","l","m",
          "n","o","p","q","r","s","t","u","v","w","x","y","z"}

Upper == {"A","B","C","D","E","F","G","H","I","J","K","L","M",
          "N","O","P","Q","R","S","T","U","V","W","X","Y","Z"}

Digit == {"0","1","2","3","4","5","6","7","8","9"}

\* [a-zA-Z_]
IdentStart == Lower \cup Upper \cup {"_"}

\* \w
WordChar == IdentStart \cup Digit

\* \s, and the characters str.strip() removes
WhiteSpace == {" ", "\t", "\n", "\r", "\f"}

\* ------------------------------------------------------- string helpers

\* s[p..] starts with w
StartsWithAt(s, w, p) ==
    /\ p >= 1
    /\ p + Len(w) - 1 <= Len(s)
    /\ \A k \in 1..Len(w) : s[p + k - 1] = w[k]

\* Python's `w in s` for strings
Contains(s, w) == \E p \in 1..(Len(s) - Len(w) + 1) : StartsWithAt(s, w, p)

\* a \b of the regex engine lies just before position p (1 <= p <= Len(s)+1)
WordBoundary(s, p) ==
    LET before == p > 1 /\ s[p - 1] \in WordChar
        after  == p <= Len(s) /\ s[p] \in WordChar
    IN  before # after

\* WordSearch without the anchors \b: any occurrence of a word counts
WordSearch_unanchored(words, s) == \E w \in words : Contains(s, w)

\* re.search(r'\b(w1|w2|...)\b', s) finds a match
WordSearch(words, s) ==
    \E w \in words : \E p \in 1..(Len(s) - Len(w) + 1) :
        /\ StartsWithAt(s, w, p)
        /\ WordBoundary(s, p)
        /\ WordBoundary(s, p + Len(w))

\* str.strip()
Strip(s) ==
    LET keep == {p \in 1..Len(s) : s[p] \notin WhiteSpace}
    IN  IF keep = {} THEN <<>>
        ELSE LET lo == CHOOSE p \in keep : \A q \in keep : p <= q
                 hi == CHOOSE p \in keep : \A q \in keep : q <= p
             IN  SubSeq(s, lo, hi)

\* the least element of a non-empty set of integers
Min(S) == CHOOSE p \in S : \A q \in S : p <= q

RECURSIVE SplitFrom(_, _, _)
\* str.split(sep) for a one-character separator, from position p on
SplitFrom(s, sep, p) ==
    LET hits == {q \in p..Len(s) : s[q] = sep}
    IN  IF hits = {} THEN << SubSeq(s, p, Len(s)) >>
        ELSE << SubSeq(s, p, Min(hits) - 1) >> \o SplitFrom(s, sep, Min(hits) + 1)

Split(s, sep) == SplitFrom(s, sep, 1)

RECURSIVE JoinWith(_, _)
\* sep.join(parts)
JoinWith(sep, parts) ==
    IF parts = <<>> THEN <<>>
    ELSE IF Len(parts) = 1 THEN parts[1]
    ELSE parts[1] \o sep \o JoinWith(sep, Tail(parts))

RECURSIVE SelectLines(_, _)
\* [x for x in xs if x not in drop], order kept
SelectLines(xs, drop) ==
    IF xs = <<>> THEN <<>>
    ELSE (IF Head(xs) \in drop THEN <<>> ELSE << Head(xs) >>)
         \o SelectLines(Tail(xs), drop)

\* ------------------------------------------------------- preprocess_code

\* '//' starts a match of r'//.*' at q
LineCommentAt(s, q) == StartsWithAt(s, <<"/","/">>, q)

\* '/*' starts a match of r'/\*[\s\S]*?\*/' at q: a '*/' follows it
BlockCommentAt(s, q) ==
    /\ StartsWithAt(s, <<"/","*">>, q)
    /\ \E c \in (q + 2)..Len(s) : StartsWithAt(s, <<"*","/">>, c)

\* the first position after the comment that starts at q: '//.*' runs to the
\* end of the line ('.' stops at a newline), the lazy '/*...*/' to the first
\* following '*/'
CommentEnd(s, q) ==
    IF LineCommentAt(s, q)
    THEN Min({c \in q..(Len(s) + 1) : c = Len(s) + 1 \/ s[c] = "\n"})
    ELSE Min({c \in (q + 2)..Len(s) : StartsWithAt(s, <<"*","/">>, c)}) + 2

RECURSIVE RemoveCommentsFrom(_, _)
\* re.sub(r'//.*|/\*[\s\S]*?\*/', '', code) from position p on: the text up
\* to the leftmost match is kept, the match dropped, and the scan resumes
\* after it
RemoveCommentsFrom(s, p) ==
    LET starts == {q \in p..Len(s) : LineCommentAt(s, q) \/ BlockCommentAt(s, q)}
    IN  IF starts = {} THEN SubSeq(s, p, Len(s))
        ELSE SubSeq(s, p, Min(starts) - 1)
             \o RemoveCommentsFrom(s, CommentEnd(s, Min(starts)))

RemoveComments(s) == RemoveCommentsFrom(s, 1)

RECURSIVE StripAll(_)
StripAll(xs) ==
    IF xs = <<>> THEN <<>> ELSE << Strip(Head(xs)) >> \o StripAll(Tail(xs))

preprocess_code(text) ==
    LET stripped == StripAll(Split(RemoveComments(text), "\n"))
        nonempty == SelectLines(stripped, { <<>> })
    IN  SelectLines(nonempty, { <<"{">>, <<"}">> })

\* ------------------------------------------------------- find_leaders

ControlWords ==
    { <<"i","f">>, <<"e","l","s","e"," ","i","f">>, <<"e","l","s","e">>,
      <<"f","o","r">>, <<"w","h","i","l","e">> }

JumpWords ==
    { <<"r","e","t","u","r","n">>, <<"b","r","e","a","k">>,
      <<"c","o","n","t","i","n","u","e">> }

\* LeaderSet without the tests `i + 1 < len(lines)`
LeaderSet_unchecked(ls) ==
    LET n == Len(ls)
        ln(i) == ls[i + 1]
        control(i) == WordSearch(ControlWords, ln(i))
        jump(i)    == WordSearch(JumpWords, ln(i))
        brace(i)   == Contains(ln(i), <<"{">>) \/ Contains(ln(i), <<"}">>)
    IN  {0}
        \cup {i \in 0..(n - 1) : control(i) \/ brace(i)}
        \cup {i + 1 : i \in {j \in 0..(n - 1) :
                 control(j) \/ jump(j) \/ brace(j)}}

\* the set `leaders` of find_leaders, as 0-based line indices
LeaderSet(ls) ==
    LET n == Len(ls)
        ln(i) == ls[i + 1]
        control(i) == WordSearch(ControlWords, ln(i))
        jump(i)    == WordSearch(JumpWords, ln(i))
        brace(i)   == Contains(ln(i), <<"{">>) \/ Contains(ln(i), <<"}">>)
    IN  {0}
        \cup {i \in 0..(n - 1) : control(i) \/ brace(i)}
        \cup {i + 1 : i \in {j \in 0..(n - 1) :
                 /\ j + 1 < n
                 /\ control(j) \/ jump(j) \/ brace(j)}}

RECURSIVE SortedSeq(_)
\* sorted(list(S)) for a finite set of integers
SortedSeq(S) ==
    IF S = {} THEN <<>> ELSE << Min(S) >> \o SortedSeq(S \ {Min(S)})

\* find_leaders without `leaders.add(0)`
find_leaders_no_zero(ls) == SortedSeq(LeaderSet(ls) \ {0})

find_leaders(ls) == SortedSeq(LeaderSet(ls))

\* ------------------------------------------------------- create_basic_blocks

\* f'B{k}'
BlockLabel(k) == "B" \o ToString(k)

\* lines[start:end] with 0-based start, exclusive end (Python slice)
Slice(ls, start, end) ==
    LET lo == IF start < Len(ls) THEN start ELSE Len(ls)
        hi == IF end < Len(ls) THEN end ELSE Len(ls)
    IN  IF lo >= hi THEN <<>> ELSE SubSeq(ls, lo + 1, hi)

RECURSIVE BuildBlocks(_, _, _, _)
\* the for loop of create_basic_blocks from position i (1-based) of leaders,
\* with `acc` the blocks appended so far
BuildBlocks(ls, lds, i, acc) ==
    IF i > Len(lds) THEN acc
    ELSE LET start == lds[i]
             end   == IF i + 1 <= Len(lds) THEN lds[i + 1] ELSE Len(ls)
             block_lines == Slice(ls, start, end)
         IN  BuildBlocks(ls, lds, i + 1,
                 IF block_lines # <<>>
                 THEN Append(acc, [label |-> BlockLabel(Len(acc)),
                                   lines |-> block_lines])
                 ELSE acc)

create_basic_blocks(ls, lds) == BuildBlocks(ls, lds, 1, <<>>)

\* ------------------------------------------------------- create_edges

KwFor    == <<"f","o","r">>
KwWhile  == <<"w","h","i","l","e">>
KwIf     == <<"i","f">>
KwElseIf == <<"e","l","s","e"," ","i","f">>
KwElse   == <<"e","l","s","e">>
KwReturn == <<"r","e","t","u","r","n">>

\* " ".join(block)
BlockCode(b) == JoinWith(<<" ">>, b.lines)

\* blocks[i + 1] exists, blocks[i + 2] exists (1-based i; Python's i is i - 1)
HasNext(bs, i) == i + 1 <= Len(bs)
HasNext2(bs, i) == i + 2 <= Len(bs)

\* LoopEdges as it was before the exit edge was added
LoopEdges_no_exit(bs, i) ==
    IF HasNext(bs, i)
    THEN << <<bs[i].label, bs[i + 1].label, "true">>,
            <<bs[i + 1].label, bs[i].label, "back">> >>
    ELSE <<>>

\* rule 1: the edges appended for a block containing "for" or "while"
LoopEdges(bs, i) ==
    IF HasNext(bs, i)
    THEN << <<bs[i].label, bs[i + 1].label, "true">>,
            <<bs[i + 1].label, bs[i].label, "back">> >>
         \o (IF HasNext2(bs, i)
             THEN << <<bs[i].label, bs[i + 2].label, "false (exit)">> >>
             ELSE <<>>)
    ELSE <<>>

\* CondEdges without the test `i + 2 < len(blocks)`, the label two positions
\* ahead written f'B{i + 2}'
CondEdges_unchecked(bs, i) ==
    (IF HasNext(bs, i)
     THEN << <<bs[i].label, bs[i + 1].label, "true">> >> ELSE <<>>)
    \o << <<bs[i].label, BlockLabel(i + 1), "false">> >>

\* rule 2: the edges appended for a block containing "if"
CondEdges(bs, i) ==
    (IF HasNext(bs, i)
     THEN << <<bs[i].label, bs[i + 1].label, "true">> >> ELSE <<>>)
    \o (IF HasNext2(bs, i)
        THEN << <<bs[i].label, bs[i + 2].label, "false">> >> ELSE <<>>)

\* rule 3: the edge appended for a block containing "else"
ElseEdges(bs, i) ==
    IF HasNext(bs, i)
    THEN << <<bs[i].label, bs[i + 1].label, "">> >> ELSE <<>>

\* PlainEdges with the keyword test written `if any(...)`
PlainEdges_inverted(bs, i, decision_blocks) ==
    LET c == BlockCode(bs[i])
    IN  IF /\ ~Contains(c, KwReturn)
           /\ bs[i].label \notin decision_blocks
           /\ \E k \in {KwFor, KwWhile, KwIf, KwElse} : Contains(c, k)
           /\ HasNext(bs, i)
        THEN << <<bs[i].label, bs[i + 1].label, "">> >>
        ELSE <<>>

\* rule 4: the edge appended for a block without "return" that is not in
\* decision_blocks
PlainEdges(bs, i, decision_blocks) ==
    LET c == BlockCode(bs[i])
    IN  IF /\ ~Contains(c, KwReturn)
           /\ bs[i].label \notin decision_blocks
           /\ ~\E k \in {KwFor, KwWhile, KwIf, KwElse} : Contains(c, k)
           /\ HasNext(bs, i)
        THEN << <<bs[i].label, bs[i + 1].label, "">> >>
        ELSE <<>>

\* the edges one pass of the for loop appends for blocks[i], given
\* decision_blocks as built so far: the first matching rule wins
EdgesOfBlock(bs, i, decision_blocks) ==
    LET c == BlockCode(bs[i])
    IN  IF Contains(c, KwFor) \/ Contains(c, KwWhile) THEN LoopEdges(bs, i)
        ELSE IF Contains(c, KwIf) \/ Contains(c, KwElseIf) THEN CondEdges(bs, i)
        ELSE IF Contains(c, KwElse) THEN ElseEdges(bs, i)
        ELSE PlainEdges(bs, i, decision_blocks)

\* whether the pass for blocks[i] adds its label to decision_blocks
IsDecision(b) ==
    LET c == BlockCode(b)
    IN  \/ Contains(c, KwFor) \/ Contains(c, KwWhile)
        \/ Contains(c, KwIf) \/ Contains(c, KwElseIf)

RECURSIVE AppendedEdges(_, _, _, _)
\* the list `edges` after the for loop, from block i on
AppendedEdges(bs, i, acc, decision_blocks) ==
    IF i > Len(bs) THEN acc
    ELSE AppendedEdges(bs, i + 1,
             acc \o EdgesOfBlock(bs, i, decision_blocks),
             IF IsDecision(bs[i]) THEN decision_blocks \cup {bs[i].label}
             ELSE decision_blocks)

RECURSIVE Dedup(_)
\* the distinct elements of a sequence, in order of first occurrence
Dedup(xs) ==
    IF xs = <<>> THEN <<>>
    ELSE LET front == Dedup(SubSeq(xs, 1, Len(xs) - 1))
             last == xs[Len(xs)]
         IN  IF \E k \in 1..Len(front) : front[k] = last THEN front
             ELSE Append(front, last)

RECURSIVE Fact(_)
Fact(n) == IF n <= 1 THEN 1 ELSE n * Fact(n - 1)

RECURSIVE KthPerm(_, _)
\* the k-th permutation (lexicographic in positions, k taken modulo n!) of xs
KthPerm(xs, k) ==
    IF xs = <<>> THEN <<>>
    ELSE LET n == Len(xs)
             f == Fact(n - 1)
             i == ((k \div f) % n) + 1
             rest == SubSeq(xs, 1, i - 1) \o SubSeq(xs, i + 1, n)
         IN  << xs[i] >> \o KthPerm(rest, k % f)

\* list(set(xs)): the distinct elements, in the iteration order of a set of
\* string tuples, which is fixed by the process's string-hash seed
ListOfSet(xs, seed) == KthPerm(Dedup(xs), seed)

create_edges(bs, seed) == ListOfSet(AppendedEdges(bs, 1, <<>>, {}), seed)

\* ------------------------------------------------------- compute_metrics

\* compute_metrics with the operands of the subtraction exchanged
compute_metrics_swapped(bs, es) ==
    LET n == Len(bs)
        e == Len(es)
    IN  [N |-> n, E |-> e, CC |-> n - e + 2]

compute_metrics(bs, es) ==
    LET n == Len(bs)
        e == Len(es)
    IN  [N |-> n, E |-> e, CC |-> e - n + 2]

\* ------------------------------------------------------- analyze_cfg

\* what analyze_cfg returns for the text of the file, in a process whose
\* string-hash seed is `seed`
analyze_cfg(text, seed) ==
    LET ls == preprocess_code(text)
        bs == create_basic_blocks(ls, find_leaders(ls))
        es == create_edges(bs, seed)
        m == compute_metrics(bs, es)
    IN  [blocks |-> bs, edges |-> es, N |-> m.N, E |-> m.E, CC |-> m.CC]

\* ------------------------------------------------------- compute_predecessors

BlockLabels(bs) == {bs[k].label : k \in 1..Len(bs)}

compute_predecessors(bs, es) ==
    [label \in BlockLabels(bs) |->
        {es[k][1] : k \in {j \in 1..Len(es) : es[j][2] = label}}]

\* ------------------------------------------------------- find_definitions

\* end of the run of \w characters that starts at position i
WordEnd(s, i) ==
    Min({j \in i..Len(s) : j = Len(s) \/ s[j + 1] \notin WordChar})

\* first position after j that holds no whitespace (Len(s)+1 if none)
SkipSpace(s, j) ==
    Min({k \in (j + 1)..(Len(s) + 1) : k = Len(s) + 1 \/ s[k] \notin WhiteSpace})

\* ([a-zA-Z_]\w*)\s*=\s*[^;]+; matches with its group starting at i
AssignAt(s, i) ==
    /\ s[i] \in IdentStart
    /\ LET eq == SkipSpace(s, WordEnd(s, i))
       IN  /\ eq <= Len(s)
           /\ s[eq] = "="
           /\ eq + 1 <= Len(s)
           /\ s[eq + 1] # ";"
           /\ \E m \in (eq + 2)..Len(s) : s[m] = ";"

\* re.match(r'.*([a-zA-Z_]\w*)\s*=\s*[^;]+;', line) is not None
IsAssignment(s) == \E i \in 1..Len(s) : AssignAt(s, i)

\* match.group(1): the greedy '.*' leaves the group the latest start
AssignVar(s) ==
    LET i == CHOOSE p \in 1..Len(s) :
                 AssignAt(s, p) /\ \A q \in 1..Len(s) : AssignAt(s, q) => q <= p
    IN  SubSeq(s, i, WordEnd(s, i))

\* DefId with the counter def_id started at 0
DefId_from_zero(k) == "D" \o ToString(k - 1)

\* f"D{def_id}"
DefId(k) == "D" \o ToString(k)

RECURSIVE DefsOfLines_by_line(_, _, _, _)
\* DefsOfLines with the id taken from the line's position in its block
DefsOfLines_by_line(label, ls, i, acc) ==
    IF i > Len(ls) THEN acc
    ELSE DefsOfLines_by_line(label, ls, i + 1,
             IF IsAssignment(ls[i])
             THEN Append(acc, [id |-> DefId(i), line |-> ls[i],
                               var |-> AssignVar(ls[i]), block |-> label])
             ELSE acc)

RECURSIVE DefsOfLines(_, _, _, _)
\* the inner loop of find_definitions over the lines of one block
DefsOfLines(label, ls, i, acc) ==
    IF i > Len(ls) THEN acc
    ELSE DefsOfLines(label, ls, i + 1,
             IF IsAssignment(ls[i])
             THEN Append(acc, [id |-> DefId(Len(acc) + 1), line |-> ls[i],
                               var |-> AssignVar(ls[i]), block |-> label])
             ELSE acc)

RECURSIVE DefsOfBlocks(_, _, _)
DefsOfBlocks(bs, i, acc) ==
    IF i > Len(bs) THEN acc
    ELSE DefsOfBlocks(bs, i + 1, DefsOfLines(bs[i].label, bs[i].lines, 1, acc))

\* `definitions`, in insertion order: definitions[k] is the entry of D<k>
find_definitions(bs) == DefsOfBlocks(bs, 1, <<>>)

\* `var_defs`
VarDefs(defs) ==
    [v \in {defs[k].var : k \in 1..Len(defs)} |->
        {defs[k].id : k \in {j \in 1..Len(defs) : defs[j].var = v}}]

\* ------------------------------------------------------- compute_gen_kill

\* the definitions whose 'line' equals a line of block b
MatchedDefs(b, defs) ==
    {k \in 1..Len(defs) : \E i \in 1..Len(b.lines) : defs[k].line = b.lines[i]}

compute_gen(bs, defs) ==
    [label \in BlockLabels(bs) |->
        LET b == bs[CHOOSE k \in 1..Len(bs) : bs[k].label = label]
        IN  {defs[k].id : k \in MatchedDefs(b, defs)}]

\* compute_kill that kills only the definitions made earlier in the program
compute_kill_earlier(bs, defs, vdefs) ==
    [label \in BlockLabels(bs) |->
        LET b == bs[CHOOSE k \in 1..Len(bs) : bs[k].label = label]
        IN  UNION {{defs[j].id : j \in {i \in 1..(k - 1) : defs[i].var = defs[k].var}}
                   : k \in MatchedDefs(b, defs)}]

compute_kill(bs, defs, vdefs) ==
    [label \in BlockLabels(bs) |->
        LET b == bs[CHOOSE k \in 1..Len(bs) : bs[k].label = label]
        IN  UNION {vdefs[defs[k].var] \ {defs[k].id} : k \in MatchedDefs(b, defs)}]

\* ------------------------------------------------------- inputs

\* The raw source lines programs are built from.
LineX1 == <<"x"," ","="," ","1",";">>

LineX2 == <<"x"," ","="," ","2",";">>

LineYX == <<"y"," ","="," ","x",";">>

LineIf == <<"i","f"," ","(","x",")"," ","{">>

LineWhile == <<"w","h","i","l","e"," ","(","y",")"," ","{">>

LineFor ==
    <<"f","o","r"," ","(","x"," ","="," ","0",";"," ","x",
      " ","<"," ","y",";"," ","x","+","+",")"," ","{">>

LineElse == <<"}"," ","e","l","s","e"," ","{">>

LineReturn == <<"r","e","t","u","r","n"," ","x",";">>

LineClose == <<"}">>

Vocabulary == {LineX1, LineX2, LineYX, LineIf, LineWhile, LineFor, LineElse, LineReturn, LineClose}

\* Scenario A: a single assignment.
ScenarioA ==
    <<"x"," ","="," ","1",";">>

\* Scenario B: one if with a one-line body and a following statement.
ScenarioB ==
    <<"x"," ","="," ","1",";","\n","i","f"," ","(","x"," ",">"," ","0",
      ")"," ","{","\n","y"," ","="," ","2",";","\n","}","\n","z"," ",
      "="," ","3",";">>

\* A program with a line comment, a block comment over two lines, a blank
\* line and surrounding whitespace.
ProgramComments ==
    <<"x"," ","="," ","1",";"," ","/","/"," ","i","f","\n","/","*"," ",
      "w","h","i","l","e"," ","(","y",")"," ","{","\n"," ","*","/"," ",
      "y"," ","="," ","x",";","\n","\n"," "," ","r","e","t","u","r","n",
      " ","x",";","\t">>

\* A loop followed by a conditional.
ProgramLoop ==
    <<"x"," ","="," ","1",";","\n","w","h","i","l","e"," ","(","y",")",
      " ","{","\n","x"," ","="," ","2",";","\n","}","\n","i","f"," ",
      "(","x",")"," ","{","\n","y"," ","="," ","x",";","\n","}","\n",
      "r","e","t","u","r","n"," ","x",";">>

\* Three nested loop headers around one assignment.
ProgramNest ==
    <<"w","h","i","l","e"," ","(","y",")"," ","{","\n","w","h","i","l",
      "e"," ","(","y",")"," ","{","\n","w","h","i","l","e"," ","(","y",
      ")"," ","{","\n","x"," ","="," ","1",";">>

\* A block whose identifiers hold 'for' and 'if', two more blocks after it.
ProgramWords ==
    <<"f","o","r","w","a","r","d"," ","="," ","1",";","\n","d","i","f",
      "f"," ","="," ","x",";","\n","b","r","e","a","k",";","\n","x"," ",
      "="," ","1",";","\n","b","r","e","a","k",";","\n","y"," ","="," ",
      "x",";">>

\* A return under an if and a return under an else, a statement after them.
ProgramGuard ==
    <<"i","f"," ","(","x",")"," ","r","e","t","u","r","n"," ","x",";",
      "\n","e","l","s","e"," ","r","e","t","u","r","n"," ","y",";","\n",
      "x"," ","="," ","1",";">>

\* An if, an else-if and a loop in a row.
ProgramElseIf ==
    <<"i","f"," ","(","x",")"," ","{","\n","x"," ","="," ","1",";","\n",
      "}"," ","e","l","s","e"," ","i","f"," ","(","y",")"," ","{","\n",
      "x"," ","="," ","2",";","\n","}","\n","w","h","i","l","e"," ","(",
      "y",")"," ","{","\n","y"," ","="," ","x",";","\n","}">>

ExtraPrograms ==
    {ScenarioA, ScenarioB, ProgramComments, ProgramLoop, ProgramNest,
     ProgramWords, ProgramGuard, ProgramElseIf}

\* every program of at most MaxLines vocabulary lines, as one text
Programs ==
    {JoinWith(<<"\n">>, p) : p \in UNION {[1..n -> Vocabulary] : n \in 0..MaxLines}}
    \cup ExtraPrograms

\* Lines that tell a keyword from an identifier holding it, a jump from a
\* branch, and a plain variable from an array element or a member.
LineForward == <<"f","o","r","w","a","r","d"," ","="," ","1",";">>

LineDiff == <<"d","i","f","f"," ","="," ","x",";">>

LineBreak == <<"b","r","e","a","k",";">>

LineContinue == <<"c","o","n","t","i","n","u","e",";">>

LineIfReturn == <<"i","f"," ","(","x",")"," ","r","e","t","u","r","n"," ","x",";">>

LineElseStmt == <<"e","l","s","e"," ","x"," ","="," ","2",";">>

LineCount == <<"c","o","u","n","t"," ","="," ","1",";">>

LineArray == <<"a","[","i","]"," ","="," ","2",";">>

LineMember == <<"p",".","x"," ","="," ","3",";">>

LineArrow == <<"p","-",">","x"," ","="," ","4",";">>

MaxLexLines == 2

LexVocabulary ==
    {LineX1, LineWhile, LineReturn, LineForward, LineDiff, LineBreak,
     LineContinue, LineIfReturn, LineElseStmt, LineCount, LineArray,
     LineMember, LineArrow}

\* every program of at most MaxLexLines lines of LexVocabulary, as one text
LexPrograms ==
    {JoinWith(<<"\n">>, p) :
        p \in UNION {[1..n -> LexVocabulary] : n \in 0..MaxLexLines}}

Seeds == 0..(NumSeeds - 1)

\* ------------------------------------------------------- state

VARIABLES
    pc,               \* the statement the program is at
    code,             \* the text read from the file
    hashseed,         \* the process's string-hash seed
    lines, leaders, blocks, edges,   \* locals of analyze_cfg
    N, E, CC,
    definitions, var_defs,           \* results of find_definitions
    gen, kill, preds, in_b, out_b,   \* locals of reaching_definitions
    changed, iteration, results, iteration_table,
    idx               \* position of the for loop over blocks (1-based)

cfg_vars == <<lines, leaders, blocks, edges, N, E, CC>>
def_vars == <<definitions, var_defs>>
rd_vars == <<gen, kill, preds, in_b, out_b, changed, iteration, results,
             iteration_table, idx>>
vars == <<pc, code, hashseed, cfg_vars, def_vars, rd_vars>>

\* nothing has been computed yet
NothingComputed ==
    /\ lines = <<>> /\ leaders = <<>> /\ blocks = <<>> /\ edges = <<>>
    /\ N = 0 /\ E = 0 /\ CC = 0
    /\ definitions = <<>> /\ var_defs = <<>>
    /\ gen = <<>> /\ kill = <<>> /\ preds = <<>>
    /\ in_b = <<>> /\ out_b = <<>>
    /\ changed = FALSE /\ iteration = 0
    /\ results = <<>> /\ iteration_table = <<>>
    /\ idx = 0

Init ==
    /\ pc = "preprocess_code"
    /\ code \in Programs
    /\ hashseed \in Seeds
    /\ NothingComputed

\* ------------------------------------------------------- analyze_cfg

Preprocess ==
    /\ pc = "preprocess_code"
    /\ lines' = preprocess_code(code)
    /\ pc' = "find_leaders"
    /\ UNCHANGED <<code, hashseed, leaders, blocks, edges, N, E, CC,
                   def_vars, rd_vars>>

FindLeaders ==
    /\ pc = "find_leaders"
    /\ leaders' = find_leaders(lines)
    /\ pc' = "create_basic_blocks"
    /\ UNCHANGED <<code, hashseed, lines, blocks, edges, N, E, CC,
                   def_vars, rd_vars>>

CreateBasicBlocks ==
    /\ pc = "create_basic_blocks"
    /\ blocks' = create_basic_blocks(lines, leaders)
    /\ pc' = "create_edges"
    /\ UNCHANGED <<code, hashseed, lines, leaders, edges, N, E, CC,
                   def_vars, rd_vars>>

CreateEdges ==
    /\ pc = "create_edges"
    /\ edges' = create_edges(blocks, hashseed)
    /\ pc' = "compute_metrics"
    /\ UNCHANGED <<code, hashseed, lines, leaders, blocks, N, E, CC,
                   def_vars, rd_vars>>

ComputeMetrics ==
    /\ pc = "compute_metrics"
    /\ LET m == compute_metrics(blocks, edges)
       IN  N' = m.N /\ E' = m.E /\ CC' = m.CC
    /\ pc' = "find_definitions"
    /\ UNCHANGED <<code, hashseed, lines, leaders, blocks, edges,
                   def_vars, rd_vars>>

\* ------------------------------------------------------- reaching_defs.main

FindDefinitions ==
    /\ pc = "find_definitions"
    /\ definitions' = find_definitions(blocks)
    /\ var_defs' = VarDefs(definitions')
    /\ pc' = "reaching_definitions"
    /\ UNCHANGED <<code, hashseed, cfg_vars, rd_vars>>

\* in_b / out_b as first built: the empty set for every label
EmptySets(bs) == [label \in BlockLabels(bs) |-> {}]

\* reaching_definitions up to its while loop
SetUp ==
    /\ pc = "reaching_definitions"
    /\ gen' = compute_gen(blocks, definitions)
    /\ kill' = compute_kill(blocks, definitions, var_defs)
    /\ preds' = compute_predecessors(blocks, edges)
    /\ in_b' = EmptySets(blocks)
    /\ out_b' = EmptySets(blocks)
    /\ changed' = TRUE
    /\ iteration' = 0
    /\ results' = <<>>
    /\ pc' = "while"
    /\ UNCHANGED <<code, hashseed, cfg_vars, def_vars, iteration_table, idx>>

\* NewIn with the intersection of the predecessors' out sets
NewIn_common(out, ps) ==
    {d \in UNION {out[p] : p \in ps} : \A p \in ps : d \in out[p]}

\* set().union(*(out_b[p] for p in preds[label])) if preds[label] else set()
NewIn(out, ps) == UNION {out[p] : p \in ps}

\* NewOut with the operands of the set difference exchanged
NewOut_swapped(g, k, new_in) == g \cup (k \ new_in)

\* gen[label].union(new_in - kill[label])
NewOut(g, k, new_in) == g \cup (new_in \ k)

\* NoteChange with the test written `new_out is not out_b[label]`: two
\* distinct set objects always differ in identity
NoteChange_identity(was, new_out, old_out) == TRUE

\* NoteChange written `changed = (new_out != out_b[label])`: the last block
\* visited decides
NoteChange_overwrite(was, new_out, old_out) == new_out # old_out

\* `changed` after `if new_out != out_b[label]: changed = True`
NoteChange(was, new_out, old_out) == IF new_out # old_out THEN TRUE ELSE was

\* the while test succeeds: a sweep starts
StartSweep ==
    /\ pc = "while"
    /\ changed
    /\ iteration < MaxIter
    /\ iteration' = iteration + 1
    /\ changed' = FALSE
    /\ iteration_table' = <<>>
    /\ idx' = 1
    /\ pc' = "for"
    /\ UNCHANGED <<code, hashseed, cfg_vars, def_vars, gen, kill, preds,
                   in_b, out_b, results>>

\* out_b[label] as it stood when the running sweep started: the value the
\* last recorded snapshot holds, the empty set in the first sweep
SweepStartOut(label) ==
    IF results = <<>> THEN {}
    ELSE LET table == results[Len(results)][2]
         IN  table[CHOOSE k \in 1..Len(table) : table[k].Block = label].out

\* VisitBlock with new_in taken from a copy of out_b made when the sweep
\* started
VisitBlock_deferred ==
    /\ pc = "for"
    /\ idx <= Len(blocks)
    /\ LET label == blocks[idx].label
           new_in == UNION {SweepStartOut(p) : p \in preds[label]}
           new_out == NewOut(gen[label], kill[label], new_in)
       IN  /\ changed' = NoteChange(changed, new_out, out_b[label])
           /\ in_b' = [in_b EXCEPT ![label] = new_in]
           /\ out_b' = [out_b EXCEPT ![label] = new_out]
           /\ iteration_table' = Append(iteration_table,
                  [Block |-> label, gen |-> gen[label], kill |-> kill[label],
                   in |-> new_in, out |-> new_out])
    /\ idx' = idx + 1
    /\ UNCHANGED <<pc, code, hashseed, cfg_vars, def_vars, gen, kill, preds,
                   iteration, results>>

\* one pass of `for label, _ in blocks`
VisitBlock ==
    /\ pc = "for"
    /\ idx <= Len(blocks)
    /\ LET label == blocks[idx].label
           new_in == NewIn(out_b, preds[label])
           new_out == NewOut(gen[label], kill[label], new_in)
       IN  /\ changed' = NoteChange(changed, new_out, out_b[label])
           /\ in_b' = [in_b EXCEPT ![label] = new_in]
           /\ out_b' = [out_b EXCEPT ![label] = new_out]
           /\ iteration_table' = Append(iteration_table,
                  [Block |-> label, gen |-> gen[label], kill |-> kill[label],
                   in |-> new_in, out |-> new_out])
    /\ idx' = idx + 1
    /\ UNCHANGED <<pc, code, hashseed, cfg_vars, def_vars, gen, kill, preds,
                   iteration, results>>

\* EndSweep written `results = [(iteration, iteration_table)]`
EndSweep_overwrite ==
    /\ pc = "for"
    /\ idx > Len(blocks)
    /\ results' = << <<iteration, iteration_table>> >>
    /\ pc' = "while"
    /\ UNCHANGED <<code, hashseed, cfg_vars, def_vars, gen, kill, preds,
                   in_b, out_b, changed, iteration, iteration_table, idx>>

\* the for loop is over: results.append((iteration, iteration_table))
EndSweep ==
    /\ pc = "for"
    /\ idx > Len(blocks)
    /\ results' = Append(results, <<iteration, iteration_table>>)
    /\ pc' = "while"
    /\ UNCHANGED <<code, hashseed, cfg_vars, def_vars, gen, kill, preds,
                   in_b, out_b, changed, iteration, iteration_table, idx>>

\* the while test fails: return results
Return ==
    /\ pc = "while"
    /\ ~changed
    /\ pc' = "done"
    /\ UNCHANGED <<code, hashseed, cfg_vars, def_vars, rd_vars>>

Next ==
    \/ Preprocess
    \/ FindLeaders
    \/ CreateBasicBlocks
    \/ CreateEdges
    \/ ComputeMetrics
    \/ FindDefinitions
    \/ SetUp
    \/ StartSweep
    \/ VisitBlock
    \/ EndSweep
    \/ Return

Spec == Init /\ [][Next]_vars

\* main up to the call of find_definitions, on the programs of LexPrograms
LexInit ==
    /\ pc = "preprocess_code"
    /\ code \in LexPrograms
    /\ hashseed \in Seeds
    /\ NothingComputed

LexNext ==
    \/ Preprocess
    \/ FindLeaders
    \/ CreateBasicBlocks
    \/ CreateEdges
    \/ ComputeMetrics
    \/ FindDefinitions

LexSpec == LexInit /\ [][LexNext]_vars

\* the steps of the while loop of reaching_definitions
SweepLoop == StartSweep \/ VisitBlock \/ EndSweep \/ Return

\* the interpreter keeps executing the loop: a step of it that can run does
FairSpec == Spec /\ WF_vars(SweepLoop)

\* ------------------------------------------------------- properties

\* the program has returned from the named step of the pipeline
BlocksBuilt == pc \notin {"preprocess_code", "find_leaders", "create_basic_blocks"}
EdgesBuilt == BlocksBuilt /\ pc # "create_edges"
MetricsDone == EdgesBuilt /\ pc # "compute_metrics"
DefsFound == MetricsDone /\ pc # "find_definitions"
SolverSetUp == DefsFound /\ pc # "reaching_definitions"

RECURSIVE FlattenBlocks(_)
\* the blocks' line lists, concatenated in block order
FlattenBlocks(bs) ==
    IF bs = <<>> THEN <<>> ELSE Head(bs).lines \o FlattenBlocks(Tail(bs))

\* C1: the blocks built from the leaders partition the line sequence:
\* concatenating the blocks' lines in block order gives back exactly `lines`
\* (so no line is lost, repeated or moved), and no block is empty.
C1_BlocksPartitionLines ==
    BlocksBuilt =>
        /\ FlattenBlocks(blocks) = lines
        /\ \A k \in 1..Len(blocks) : blocks[k].lines # <<>>

\* C1 witness: a program of three lines or more, split into several blocks
\* one of which holds more than one line.
C1_Witness ==
    /\ pc = "create_edges"
    /\ Len(lines) >= 3
    /\ Len(blocks) >= 2
    /\ \E k \in 1..Len(blocks) : Len(blocks[k].lines) >= 2

\* C2: the sweep loop of reaching_definitions stops: once the loop is
\* entered, the program eventually returns from it, after a sweep in which no
\* out[B] changed.
C2_SolverTerminates == (pc = "while") ~> (pc = "done" /\ ~changed)

\* C2 witness: the solver has returned after three sweeps or more.
C2_Witness == pc = "done" /\ Len(results) >= 3

\* C3 as stated: the number of sweeps (recorded snapshots, the final
\* no-change sweep included) is at most |Definitions| + 1.
C3_SweepsAtMostDefsPlusOne ==
    pc = "done" => Len(results) <= Len(definitions) + 1

\* C3 amended: the number of sweeps is at most |Blocks| * |Definitions| + 1
\* (every sweep but the last adds a definition to some out[B]).
C3_SweepsAtMostBlocksTimesDefsPlusOne ==
    /\ iteration <= Len(blocks) * Len(definitions) + 1
    /\ Len(results) <= iteration

\* C3 witness: the solver has returned after more than |Definitions| + 1
\* sweeps.
C3_Witness == pc = "done" /\ Len(results) > Len(definitions) + 1

\* the edges as a set, and the predecessors of a block read off the edges
EdgeSet == {edges[k] : k \in 1..Len(edges)}
PredsOf(label) == {e[1] : e \in {x \in EdgeSet : x[2] = label}}

\* C4: when reaching_definitions has returned, in/out solve the dataflow
\* equations: in[B] is the union of out[P] over the predecessors P of B and
\* out[B] = gen[B] \cup (in[B] \ kill[B]), for every block B.
C4_FixedPointAtReturn ==
    pc = "done" =>
        \A label \in BlockLabels(blocks) :
            /\ in_b[label] = UNION {out_b[p] : p \in PredsOf(label)}
            /\ out_b[label] = gen[label] \cup (in_b[label] \ kill[label])

\* C4 witness: the solver has returned with a block whose in set is fed by
\* two predecessors or more and is not empty.
C4_Witness ==
    /\ pc = "done"
    /\ \E label \in BlockLabels(blocks) :
           Cardinality(PredsOf(label)) >= 2 /\ in_b[label] # {}

\* C5: out[B] never shrinks from one recorded sweep to the next.
C5_OutGrowsAcrossSweeps ==
    \A k \in 1..(Len(results) - 1) :
        \A j \in 1..Len(results[k][2]) :
            results[k][2][j].out \subseteq results[k + 1][2][j].out

\* C5 witness: three sweeps are recorded and some out[B] grew strictly from
\* the first to the second.
C5_Witness ==
    /\ Len(results) >= 3
    /\ \E j \in 1..Len(results[1][2]) :
           results[1][2][j].out # results[2][2][j].out

\* C6: N is the number of blocks, E the number of edges of the duplicate-free
\* edge list create_edges returned, and CC = E - N + 2.
C6_MetricsFromCounts ==
    MetricsDone =>
        /\ N = Len(blocks)
        /\ E = Cardinality(EdgeSet)
        /\ CC = Cardinality(EdgeSet) - Len(blocks) + 2

\* C6 witness: metrics computed for a graph of three blocks and three edges
\* or more.
C6_Witness ==
    pc = "find_definitions" /\ Len(blocks) >= 3 /\ Cardinality(EdgeSet) >= 3

\* C7 as stated: a second run of the pipeline on the same text, in any
\* process, returns the same blocks, the same edges and the same N, E and CC
\* as this run.
C7_RerunIdentical ==
    MetricsDone =>
        \A seed \in Seeds :
            analyze_cfg(code, seed) =
                [blocks |-> blocks, edges |-> edges, N |-> N, E |-> E, CC |-> CC]

\* the statement lines of Scenario B
LineIfB == <<"i","f"," ","(","x"," ",">"," ","0",")"," ","{">>
LineY2 == <<"y"," ","="," ","2",";">>
LineZ3 == <<"z"," ","="," ","3",";">>

\* block b holds line l
HoldsLine(b, l) == \E i \in 1..Len(b.lines) : b.lines[i] = l

\* C8 as stated: for Scenario B the 'if' line and the line after it are
\* leaders, the block of the 'if' has a 'true' edge to the block of 'y = 2;'
\* and a 'false' edge to a separate block holding 'z = 3;', and CC = 2.
C8_ScenarioB ==
    (code = ScenarioB /\ MetricsDone) =>
        /\ \E i \in 1..Len(lines) :
               /\ lines[i] = LineIfB
               /\ \E a, b \in 1..Len(leaders) :
                      leaders[a] = i - 1 /\ leaders[b] = i
        /\ \E bi, bt, bm \in 1..Len(blocks) :
               /\ HoldsLine(blocks[bi], LineIfB)
               /\ HoldsLine(blocks[bt], LineY2)
               /\ HoldsLine(blocks[bm], LineZ3)
               /\ bm # bt
               /\ <<blocks[bi].label, blocks[bt].label, "true">> \in EdgeSet
               /\ <<blocks[bi].label, blocks[bm].label, "false">> \in EdgeSet
        /\ CC = 2

\* pairs of definitions of one variable located in different blocks
SameVarOtherBlock ==
    {p \in (1..Len(definitions)) \X (1..Len(definitions)) :
        /\ definitions[p[1]].var = definitions[p[2]].var
        /\ definitions[p[1]].block # definitions[p[2]].block}

\* C9 as stated: after convergence, out[B] of a block B that assigns v holds
\* no definition of v located in another block.
C9_OnlyOwnDefinitionReachesExit ==
    pc = "done" =>
        \A p \in SameVarOtherBlock :
            definitions[p[2]].id \notin out_b[definitions[p[1]].block]

\* C10: for definitions d in B and d' in B' of the same variable, B # B',
\* d' is in kill[B] and d is in kill[B'].
C10_KillIsMutual ==
    SolverSetUp =>
        \A p \in SameVarOtherBlock :
            /\ definitions[p[2]].id \in kill[definitions[p[1]].block]
            /\ definitions[p[1]].id \in kill[definitions[p[2]].block]

\* C10 witness: gen and kill are computed for a program that assigns one
\* variable in two different blocks.
C10_Witness == pc = "while" /\ iteration = 0 /\ SameVarOtherBlock # {}

\* C11: every edge create_edges returns joins two existing blocks: its source
\* and its destination are labels of blocks of the sequence, also when the
\* block it was appended for is the last or the second-to-last one.
C11_EdgesJoinExistingBlocks ==
    EdgesBuilt =>
        \A e \in EdgeSet :
            e[1] \in BlockLabels(blocks) /\ e[2] \in BlockLabels(blocks)

\* edges were built for a sequence whose last two blocks are both loop or
\* conditional headers, so neither has a block two positions ahead
C11_Witness ==
    /\ EdgesBuilt
    /\ Len(blocks) >= 3
    /\ IsDecision(blocks[Len(blocks)])
    /\ IsDecision(blocks[Len(blocks) - 1])
    /\ \E e \in EdgeSet : e[1] = blocks[Len(blocks) - 1].label

\* the orders in which the blocks can be visited: the permutations of the
\* labels
VisitOrders(bs) ==
    {o \in [1..Len(bs) -> BlockLabels(bs)] :
        \A i, j \in 1..Len(bs) : o[i] = o[j] => i = j}

RECURSIVE SweepIn(_, _, _, _, _)
\* one sweep visiting the labels order[k], order[k + 1], ... from the solver
\* state st = [in, out, changed]; a block reads the out sets of the state
\* being updated or, when `deferred`, the out sets `prev` the sweep started
\* from
SweepIn(order, k, st, deferred, prev) ==
    IF k > Len(order) THEN st
    ELSE LET label == order[k]
             new_in == NewIn(IF deferred THEN prev ELSE st.out, preds[label])
             new_out == NewOut(gen[label], kill[label], new_in)
         IN  SweepIn(order, k + 1,
                 [in |-> [st.in EXCEPT ![label] = new_in],
                  out |-> [st.out EXCEPT ![label] = new_out],
                  changed |-> NoteChange(st.changed, new_out, st.out[label])],
                 deferred, prev)

RECURSIVE SolveIn(_, _, _, _)
\* the while loop of reaching_definitions with every sweep run in `order`,
\* for at most `fuel` sweeps
SolveIn(order, st, deferred, fuel) ==
    IF ~st.changed \/ fuel = 0 THEN st
    ELSE SolveIn(order,
             SweepIn(order, 1, [st EXCEPT !.changed = FALSE], deferred, st.out),
             deferred, fuel - 1)

\* the in/out sets the solver ends with when it visits the blocks in `order`
SolutionIn(order, deferred) ==
    LET st == SolveIn(order,
                  [in |-> EmptySets(blocks), out |-> EmptySets(blocks),
                   changed |-> TRUE],
                  deferred, MaxIter)
    IN  <<st.in, st.out>>

\* C12: the in/out sets reaching_definitions returns with are those every
\* visiting order converges to: sweeping the blocks in any permutation of
\* label order, or computing every block of a sweep from the out sets of the
\* previous sweep, ends with the same in[B] and out[B] for every block.
C12_VisitOrderIrrelevant ==
    pc = "done" =>
        \A o \in VisitOrders(blocks) : \A deferred \in BOOLEAN :
            SolutionIn(o, deferred) = <<in_b, out_b>>

\* the solver has returned, after three sweeps or more, for a graph of three
\* blocks or more with a back edge, in which a block passes on a definition
\* that reaches it and adds or removes one
C12_Witness ==
    /\ pc = "done"
    /\ Len(blocks) >= 3
    /\ \E e \in EdgeSet : e[3] = "back"
    /\ \E b \in BlockLabels(blocks) : in_b[b] # {} /\ out_b[b] # in_b[b]
    /\ iteration >= 3

\* C13: for a non-empty sequence of statement lines, the leaders are sorted
\* and free of duplicates (strictly increasing), start with index 0 and are
\* all below the number of lines, and there is at least one block (N >= 1).
C13_LeadersWellFormed ==
    (BlocksBuilt /\ lines # <<>>) =>
        /\ Len(leaders) >= 1
        /\ leaders[1] = 0
        /\ \A i \in 1..(Len(leaders) - 1) : leaders[i] < leaders[i + 1]
        /\ \A i \in 1..Len(leaders) : leaders[i] \in 0..(Len(lines) - 1)
        /\ Len(blocks) >= 1
        /\ (MetricsDone => N >= 1)

\* blocks were built and counted for a sequence whose last line holds a
\* control keyword, so the index after the last line is not made a leader
C13_Witness ==
    /\ MetricsDone
    /\ Len(lines) >= 2
    /\ WordSearch(ControlWords, lines[Len(lines)])
    /\ Len(leaders) >= 2
    /\ N = Len(leaders)

\* C14: for the Scenario A program, whose only statement line is 'x = 1;',
\* there is exactly one block B0, no edge and CC = 1, the single definition
\* is D1, gen[B0] = {D1} and kill[B0] is empty.
C14_ScenarioA ==
    (code = ScenarioA /\ SolverSetUp) =>
        /\ Len(blocks) = 1
        /\ blocks[1].label = "B0"
        /\ blocks[1].lines = << LineX1 >>
        /\ edges = <<>>
        /\ N = 1 /\ E = 0 /\ CC = 1
        /\ Len(definitions) = 1
        /\ definitions[1].id = "D1"
        /\ definitions[1].var = <<"x">>
        /\ definitions[1].block = "B0"
        /\ gen = [b \in {"B0"} |-> {"D1"}]
        /\ kill = [b \in {"B0"} |-> {}]

\* the solver has run to its return on Scenario A
C14_Witness ==
    /\ code = ScenarioA
    /\ pc = "done"
    /\ out_b = [b \in {"B0"} |-> {"D1"}]

\* find_leaders has returned
LeadersFound == pc \notin {"preprocess_code", "find_leaders"}

LeaderIndices == {leaders[k] : k \in 1..Len(leaders)}

\* the words of a line: its maximal runs of letters, digits and underscores
WordsOf(s) ==
    {SubSeq(s, x[1], x[2]) : x \in
        {y \in (1..Len(s)) \X (1..Len(s)) :
            /\ y[1] <= y[2]
            /\ \A r \in y[1]..y[2] : s[r] \in WordChar
            /\ (y[1] = 1 \/ s[y[1] - 1] \notin WordChar)
            /\ (y[2] = Len(s) \/ s[y[2] + 1] \notin WordChar)}}

\* the line has one of if / else if / else / for / while as a whole word
\* ('else if' as a whole word implies 'else' as a whole word)
HasControlWord(s) ==
    WordsOf(s) \cap {KwIf, KwElse, KwFor, KwWhile} # {}

\* the line has one of return / break / continue as a whole word
HasJumpWord(s) ==
    WordsOf(s) \cap {KwReturn, <<"b","r","e","a","k">>,
                     <<"c","o","n","t","i","n","u","e">>} # {}

HasBrace(s) == \E p \in 1..Len(s) : s[p] \in {"{", "}"}

\* statement lines that hold nothing but a jump
JumpOnlyLines == {LineBreak, LineContinue, LineReturn}

\* C15: index i is a leader exactly when i = 0, or line i has a control
\* keyword as a whole word or a brace, or i > 0 and line i - 1 has a control
\* keyword or a jump keyword as a whole word or a brace. So a line that is
\* only a jump makes the next index a leader and not its own, and the line
\* 'forward = 1;' makes no index a leader.
C15_LeaderRule ==
    LeadersFound =>
        /\ LeaderIndices \subseteq {0} \cup (0..(Len(lines) - 1))
        /\ 0 \in LeaderIndices
        /\ \A i \in 1..(Len(lines) - 1) :
               i \in LeaderIndices <=>
                   \/ HasControlWord(lines[i + 1]) \/ HasBrace(lines[i + 1])
                   \/ HasControlWord(lines[i]) \/ HasJumpWord(lines[i])
                   \/ HasBrace(lines[i])
        /\ \A i \in 1..(Len(lines) - 1) :
               lines[i] \in JumpOnlyLines => i \in LeaderIndices
        /\ \A i \in 2..Len(lines) :
               (lines[i] \in JumpOnlyLines /\ lines[i - 1] = LineForward)
                   => (i - 1) \notin LeaderIndices
        /\ \A i \in 1..(Len(lines) - 1) :
               (lines[i] = LineForward /\ lines[i + 1] = LineForward)
                   => i \notin LeaderIndices

\* the leaders were found for 'forward = 1;' followed by 'break;': the only
\* leader is 0
C15_Witness ==
    /\ LeadersFound
    /\ lines = << LineForward, LineBreak >>
    /\ leaders = << 0 >>

\* the text of the block at position i (1-based) holds the substring
HoldsFor(i) == Contains(BlockCode(blocks[i]), KwFor)
HoldsWhile(i) == Contains(BlockCode(blocks[i]), KwWhile)
HoldsIf(i) == Contains(BlockCode(blocks[i]), KwIf)
HoldsElse(i) == Contains(BlockCode(blocks[i]), KwElse)
HoldsReturn(i) == Contains(BlockCode(blocks[i]), KwReturn)

\* the label B_k of the block at 0-based position k
B(k) == "B" \o ToString(k)

\* the edges of the result whose source is the block at position i (1-based)
EdgesFrom(i) == {e \in EdgeSet : e[1] = B(i - 1)}

\* the edges a loop header at position i - 1 emits with the block at
\* position i as their source
BackEdgeFrom(i) ==
    IF i > 1 /\ (HoldsFor(i - 1) \/ HoldsWhile(i - 1))
    THEN {<<B(i - 1), B(i - 2), "back">>} ELSE {}

\* C16: for a block B_i whose text holds 'for' or 'while', the pass for that
\* block appends exactly (B_i, B_i+1, true) and (B_i+1, B_i, back) when block
\* i + 1 exists, and (B_i, B_i+2, false (exit)) when block i + 2 exists,
\* whatever else the text holds; in the result B_i has no 'false' and no
\* unlabeled outgoing edge.
C16_LoopHeaderEdges ==
    EdgesBuilt =>
        \A i \in 1..Len(blocks) : (HoldsFor(i) \/ HoldsWhile(i)) =>
            /\ \A d \in SUBSET BlockLabels(blocks) :
                   EdgesOfBlock(blocks, i, d) =
                       (IF i + 1 <= Len(blocks)
                        THEN << <<B(i - 1), B(i), "true">>,
                                <<B(i), B(i - 1), "back">> >>
                        ELSE <<>>)
                       \o (IF i + 2 <= Len(blocks)
                           THEN << <<B(i - 1), B(i + 1), "false (exit)">> >>
                           ELSE <<>>)
            /\ EdgesFrom(i) =
                   (IF i + 1 <= Len(blocks)
                    THEN {<<B(i - 1), B(i), "true">>} ELSE {})
                   \cup (IF i + 2 <= Len(blocks)
                         THEN {<<B(i - 1), B(i + 1), "false (exit)">>} ELSE {})
                   \cup BackEdgeFrom(i)
            /\ (i + 1 <= Len(blocks) => <<B(i), B(i - 1), "back">> \in EdgeSet)
            /\ \A e \in EdgesFrom(i) : e[3] \notin {"false", ""}

\* edges were built for a sequence in which a block holding both 'for' and
\* 'if' has two blocks after it
C16_Witness ==
    /\ EdgesBuilt
    /\ \E i \in 1..Len(blocks) :
           /\ HoldsFor(i) /\ HoldsIf(i)
           /\ i + 2 <= Len(blocks)
           /\ <<B(i - 1), B(i + 1), "false (exit)">> \in EdgeSet

\* C17: for a block B_i whose text holds 'if' and neither 'for' nor 'while',
\* the pass for that block appends (B_i, B_i+1, true) when block i + 1 exists
\* and (B_i, B_i+2, false) when block i + 2 exists, and nothing else; in the
\* result no other edge leaves B_i on account of that block.
C17_ConditionalHeaderEdges ==
    EdgesBuilt =>
        \A i \in 1..Len(blocks) :
            (HoldsIf(i) /\ ~HoldsFor(i) /\ ~HoldsWhile(i)) =>
                /\ \A d \in SUBSET BlockLabels(blocks) :
                       EdgesOfBlock(blocks, i, d) =
                           (IF i + 1 <= Len(blocks)
                            THEN << <<B(i - 1), B(i), "true">> >> ELSE <<>>)
                           \o (IF i + 2 <= Len(blocks)
                               THEN << <<B(i - 1), B(i + 1), "false">> >>
                               ELSE <<>>)
                /\ EdgesFrom(i) =
                       (IF i + 1 <= Len(blocks)
                        THEN {<<B(i - 1), B(i), "true">>} ELSE {})
                       \cup (IF i + 2 <= Len(blocks)
                             THEN {<<B(i - 1), B(i + 1), "false">>} ELSE {})
                       \cup BackEdgeFrom(i)

\* edges were built for a sequence in which an 'else if' block has two
\* blocks after it
C17_Witness ==
    /\ EdgesBuilt
    /\ \E i \in 1..Len(blocks) :
           /\ Contains(BlockCode(blocks[i]), KwElseIf)
           /\ i + 2 <= Len(blocks)
           /\ EdgesFrom(i) = {<<B(i - 1), B(i), "true">>,
                              <<B(i - 1), B(i + 1), "false">>}

\* C18: a block whose text holds none of 'if', 'else', 'for', 'while' and
\* no 'return', and that has a following block, gets the unlabeled edge to
\* the next block as its forward edge, and never a 'true' or a 'false' edge.
C18_PlainBlockEdge ==
    EdgesBuilt =>
        \A i \in 1..(Len(blocks) - 1) :
            (~HoldsIf(i) /\ ~HoldsElse(i) /\ ~HoldsFor(i) /\ ~HoldsWhile(i)
                /\ ~HoldsReturn(i)) =>
                /\ <<B(i - 1), B(i), "">> \in EdgeSet
                /\ EdgesFrom(i) = {<<B(i - 1), B(i), "">>} \cup BackEdgeFrom(i)
                /\ \A e \in EdgesFrom(i) :
                       e[3] \notin {"true", "false", "false (exit)"}

\* edges were built for a sequence in which a plain block follows a
\* conditional header and has a block after it
C18_Witness ==
    /\ EdgesBuilt
    /\ \E i \in 2..(Len(blocks) - 1) :
           /\ ~HoldsIf(i) /\ ~HoldsElse(i) /\ ~HoldsFor(i) /\ ~HoldsWhile(i)
           /\ ~HoldsReturn(i)
           /\ HoldsIf(i - 1)
           /\ EdgesFrom(i) = {<<B(i - 1), B(i), "">>}

\* C19 as stated: a block whose text holds 'return' is terminal whatever
\* else it holds: no edge of the result leaves it for a later block.
C19_ReturnBlocksTerminal ==
    EdgesBuilt =>
        \A i \in 1..Len(blocks) : HoldsReturn(i) =>
            \A e \in EdgesFrom(i) : e[2] \notin {B(i), B(i + 1)}

\* the line is an assignment 'identifier = expression ;' whose left-hand
\* side, the identifier the line starts with, is a bare identifier
IsBareAssignment(l) == Len(l) > 0 /\ AssignAt(l, 1)

\* the identifier a line starts with
LeadingIdentifier(l) == SubSeq(l, 1, WordEnd(l, 1))

\* C20 as stated: find_definitions records a definition for a line exactly
\* when the line assigns to a bare identifier, the variable recorded is that
\* whole identifier, and a line that assigns to an array element or to a
\* member (a[i] = ..., p.x = ..., p->x = ...) gives no definition.
C20_DefinitionsAreBareAssignments ==
    DefsFound =>
        /\ \A k \in 1..Len(definitions) :
               /\ IsBareAssignment(definitions[k].line)
               /\ definitions[k].var = LeadingIdentifier(definitions[k].line)
               /\ definitions[k].line \notin {LineArray, LineMember, LineArrow}
        /\ \A i \in 1..Len(blocks) : \A j \in 1..Len(blocks[i].lines) :
               IsBareAssignment(blocks[i].lines[j]) =>
                   \E k \in 1..Len(definitions) :
                       /\ definitions[k].line = blocks[i].lines[j]
                       /\ definitions[k].block = blocks[i].label

\* the definition with the given id
DefOf(d) == definitions[CHOOSE k \in 1..Len(definitions) : definitions[k].id = d]

AllDefIds == {definitions[k].id : k \in 1..Len(definitions)}

\* C21: kill[B] is the union, over the definitions d in gen[B], of the other
\* definitions of d's variable anywhere in the program: it holds every
\* definition other than d of that variable, one inside B itself included,
\* and no definition of a variable that gen[B] does not define.
C21_KillIsOtherDefsOfGenVars ==
    SolverSetUp =>
        \A b \in BlockLabels(blocks) :
            /\ kill[b] = {e \in AllDefIds :
                             \E d \in gen[b] :
                                 e # d /\ DefOf(e).var = DefOf(d).var}
            /\ \A e \in kill[b] :
                   DefOf(e).var \in {DefOf(d).var : d \in gen[b]}

\* gen and kill are computed for a program in which a block assigns one
\* variable twice and another variable is assigned too: the block's two
\* definitions kill each other
C21_Witness ==
    /\ SolverSetUp
    /\ \E b \in BlockLabels(blocks) : \E d, e \in gen[b] :
           /\ d # e
           /\ DefOf(d).var = DefOf(e).var
           /\ DefOf(d).line # DefOf(e).line
           /\ {d, e} \subseteq kill[b]
           /\ \E f \in AllDefIds : DefOf(f).var # DefOf(d).var /\ f \notin kill[b]

\* the row of the running sweep's table for the block, once it is visited
RowOf(label) ==
    iteration_table[CHOOSE k \in 1..Len(iteration_table) :
                        iteration_table[k].Block = label]

\* the blocks the running sweep has visited
Visited == {iteration_table[k].Block : k \in 1..Len(iteration_table)}

\* C22 as stated: in every sweep, in[B] of every block visited is the union
\* of the out sets its predecessors had at the end of the previous sweep (the
\* empty sets in the first sweep): no out set updated earlier in the same
\* sweep is read.
C22_InReadsPreviousSweepOnly ==
    pc = "for" =>
        \A k \in 1..Len(iteration_table) :
            iteration_table[k].in =
                UNION {SweepStartOut(p) : p \in preds[iteration_table[k].Block]}

\* C22 amended: in[B] of the k-th block visited is the union, over its
\* predecessors P, of out[P] as this sweep computed it when P was visited
\* before B in this sweep, and of out[P] as the previous sweep left it
\* otherwise (B itself included).
C22_InReadsCurrentOut ==
    pc = "for" =>
        \A k \in 1..Len(iteration_table) :
            iteration_table[k].in =
                UNION {IF \E j \in 1..(k - 1) : iteration_table[j].Block = p
                       THEN RowOf(p).out
                       ELSE SweepStartOut(p)
                       : p \in preds[iteration_table[k].Block]}

\* in a sweep after the first, a block has been visited that has a
\* predecessor visited before it whose out set this sweep changed, and a
\* predecessor visited after it whose out set is not empty
C22_Witness ==
    /\ pc = "for"
    /\ iteration >= 2
    /\ \E b \in Visited :
           /\ \E p \in preds[b] \cap Visited :
                  /\ p # b
                  /\ RowOf(p).out # SweepStartOut(p)
                  /\ \E j, k \in 1..Len(iteration_table) :
                         /\ j < k
                         /\ iteration_table[j].Block = p
                         /\ iteration_table[k].Block = b
           /\ \E q \in preds[b] \ Visited : SweepStartOut(q) # {}

\* the 1-based position of the block with the given label
BlockPos(label) == CHOOSE i \in 1..Len(blocks) : blocks[i].label = label

RECURSIVE LinesOfDefs(_, _)
\* the lines of the definitions k, k + 1, ... located in the block, in id order
LinesOfDefs(label, k) ==
    IF k > Len(definitions) THEN <<>>
    ELSE (IF definitions[k].block = label
          THEN << definitions[k].line >> ELSE <<>>)
         \o LinesOfDefs(label, k + 1)

\* C23: the ids are D1, D2, ... without gaps, so pairwise distinct; they
\* increase in block order and, inside a block, in line order: the
\* definitions of a block, in id order, are its assignment lines in line
\* order, one definition per line, also when a variable is assigned twice.
C23_IdsSequential ==
    DefsFound =>
        /\ \A k \in 1..Len(definitions) : definitions[k].id = "D" \o ToString(k)
        /\ \A j, k \in 1..Len(definitions) :
               j # k => definitions[j].id # definitions[k].id
        /\ \A j, k \in 1..Len(definitions) :
               j < k => BlockPos(definitions[j].block)
                            <= BlockPos(definitions[k].block)
        /\ \A i \in 1..Len(blocks) :
               LinesOfDefs(blocks[i].label, 1)
                   = SelectLines(blocks[i].lines,
                         {l \in {blocks[i].lines[j] : j \in 1..Len(blocks[i].lines)} :
                              ~IsAssignment(l)})

\* definitions were found for a program in which a block assigns one
\* variable twice and a later block assigns again
C23_Witness ==
    /\ DefsFound
    /\ \E j, k, m \in 1..Len(definitions) :
           /\ j < k /\ k < m
           /\ definitions[j].block = definitions[k].block
           /\ definitions[j].var = definitions[k].var
           /\ definitions[m].block # definitions[k].block

\* the snapshot table a sweep must record: one row per block in label order
\* with the solver's gen, kill, in and out
TableOfState ==
    [k \in 1..Len(blocks) |->
        [Block |-> blocks[k].label, gen |-> gen[blocks[k].label],
         kill |-> kill[blocks[k].label], in |-> in_b[blocks[k].label],
         out |-> out_b[blocks[k].label]]]

\* the snapshots recorded are numbered 1, 2, ... in order, one per finished
\* sweep; each holds one row per block in label order with the gen and kill
\* of the solver; between sweeps the last snapshot holds the solver's in and
\* out
SnapshotsMatchSweeps ==
    SolverSetUp =>
        /\ Len(results) = (IF pc = "for" THEN iteration - 1 ELSE iteration)
        /\ \A k \in 1..Len(results) :
               /\ results[k][1] = k
               /\ Len(results[k][2]) = Len(blocks)
               /\ \A i \in 1..Len(blocks) :
                      /\ results[k][2][i].Block = "B" \o ToString(i - 1)
                      /\ results[k][2][i].gen = gen[blocks[i].label]
                      /\ results[k][2][i].kill = kill[blocks[i].label]
        /\ (pc \in {"while", "done"} /\ iteration >= 1) =>
               results[Len(results)][2] = TableOfState

\* a step leaves every recorded snapshot, and gen and kill once computed, as
\* they are
SnapshotsFrozen ==
    /\ Len(results') >= Len(results)
    /\ \A k \in 1..Len(results) : results'[k] = results[k]
    /\ SolverSetUp => (gen' = gen /\ kill' = kill)

\* C24: exactly one snapshot is recorded per sweep, numbered 1, 2, ... in
\* order, with one row per block in label order whose gen, kill, in and out
\* are the solver's at the end of that sweep; no later step changes a
\* recorded snapshot, and gen and kill are the same in every snapshot.
C24_SnapshotsRecordedAndFrozen ==
    [][SnapshotsMatchSweeps' /\ SnapshotsFrozen]_vars

\* the solver has returned after three sweeps or more, and the in or out
\* sets of two recorded snapshots differ
C24_Witness ==
    /\ pc = "done"
    /\ Len(results) >= 3
    /\ \E i \in 1..Len(blocks) :
           results[1][2][i].out # results[Len(results)][2][i].out
    /\ \E i \in 1..Len(blocks) : results[1][2][i].gen # {}

RECURSIVE ReachedFrom(_, _)
\* the blocks at whose exit definition d arrives: the blocks of R and every
\* block an edge leads to from one of them that does not kill d, and so on
ReachedFrom(d, R) ==
    LET more == {e[2] : e \in {x \in EdgeSet :
                    x[1] \in R /\ d \notin kill[x[2]]}}
    IN  IF more \subseteq R THEN R ELSE ReachedFrom(d, R \cup more)

\* the blocks B for which a path B_0, ..., B_k = B along the edges exists
\* with d in gen[B_0] and d in no kill[B_j], j = 1..k
PathTargets(d) == ReachedFrom(d, {b \in BlockLabels(blocks) : d \in gen[b]})

\* C25: when reaching_definitions has returned, d is in out[B] if and only
\* if some path B_0, ..., B_k = B (k >= 0) along the edges has d in gen[B_0]
\* and d not in kill[B_j] for j = 1..k.
C25_OutIsLeastSolution ==
    pc = "done" =>
        \A b \in BlockLabels(blocks) :
            out_b[b] = {d \in AllDefIds : b \in PathTargets(d)}

\* the solver has returned for a program in which a definition reaches the
\* exit of a block two edges or more away, one of them a back edge, and is
\* stopped at another block by a kill
C25_Witness ==
    /\ pc = "done"
    /\ \E d \in AllDefIds : \E b, c \in BlockLabels(blocks) :
           /\ d \in out_b[b]
           /\ d \notin gen[b]
           /\ \A p \in PredsOf(b) : d \notin gen[p]
           /\ \E p \in PredsOf(b) : <<p, b, "back">> \in EdgeSet /\ d \in out_b[p]
           /\ d \in in_b[c] /\ d \in kill[c] /\ d \notin out_b[c]

\* C26 as stated: every definition is in gen[B] for exactly one block B, the
\* block recorded with it, also when two blocks hold assignment lines with
\* the same text.
C26_GenPartitionsDefinitions ==
    SolverSetUp =>
        \A k \in 1..Len(definitions) : \A b \in BlockLabels(blocks) :
            definitions[k].id \in gen[b] <=> b = definitions[k].block

\* some line of the block at position i has if, else, for or while as a
\* whole word: what find_leaders takes for a control statement
HasControlLine(i) ==
    \E j \in 1..Len(blocks[i].lines) : HasControlWord(blocks[i].lines[j])

\* C27 as stated: create_edges treats a block as a loop header, a
\* conditional header or an else block only if one of its lines has for,
\* while, if or else as a whole word; a block that holds a keyword only
\* inside a longer identifier is treated as a plain block: the pass for it
\* appends the unlabeled edge to the next block, or nothing when it holds
\* 'return' or is the last block, and it has no 'true', 'false' or exit edge.
C27_KeywordsAreWholeWords ==
    EdgesBuilt =>
        \A i \in 1..Len(blocks) : ~HasControlLine(i) =>
            /\ \A d \in SUBSET (BlockLabels(blocks) \ {B(i - 1)}) :
                   EdgesOfBlock(blocks, i, d) =
                       (IF ~HoldsReturn(i) /\ i + 1 <= Len(blocks)
                        THEN << <<B(i - 1), B(i), "">> >> ELSE <<>>)
            /\ \A e \in EdgesFrom(i) :
                   e[3] \notin {"true", "false", "false (exit)"}

====
